---- MODULE Spec2Model ----
(***************************************************************************)
(* Organize-by-Team: the CSV-driven photo reorganizer.                     *)
(*                                                                         *)
(*   src/organize.py      organize_photos_by_team  (tkinter front end)     *)
(*   src/organize-mac.py  PhotoOrganizer.run_organizer  (PyQt front end)   *)
(*                                                                         *)
(* Strings are sequences of one-character strings, so that str.strip() is  *)
(* computed and not assumed.  A path is the sequence of its components     *)
(* below image_directory; <<>> is image_directory itself.  The file system *)
(* is a set of entries plus the number of free inodes; an entry carries    *)
(* the identity of the file or directory it was at the start of the run.   *)
(*                                                                         *)
(* The cell values of the tables are text without a path separator and are *)
(* not "." or ".."; image_directory exists and grants write permission.    *)
(* A creation fails when no inode is free, a move fails into a directory   *)
(* without write permission, below a regular file, or into itself.         *)
(***************************************************************************)
EXTENDS Integers, Sequences, FiniteSets, TLC

VARIABLES df, team_col, photo_col, fs, pc, index, exc, log,
          fs0, prev, run, fs1,
          dfB, fsB, pcB, indexB, excB, logB

vars == <<df, team_col, photo_col, fs, pc, index, exc, log,
          fs0, prev, run, fs1, dfB, fsB, pcB, indexB, excB, logB>>

varsA == <<df, team_col, photo_col, fs, pc, index, exc, log, fs0, prev, run, fs1>>
varsB == <<dfB, fsB, pcB, indexB, excB, logB>>

----------------------------------------------------------------------------
(* Bounds of the model *)

\* longest table (number of data rows of the CSV)
MaxRows == 3

\* number of times the user presses "Run Organizer" in SpecTwice
MaxRuns == 2

----------------------------------------------------------------------------
(* Strings *)

\* the characters str.strip() removes (two of them are enough here)
WS == {" ", "\t"}

RECURSIVE LStrip(_)
LStrip(s) == IF s # <<>> /\ Head(s) \in WS THEN LStrip(Tail(s)) ELSE s

RECURSIVE RStrip(_)
RStrip(s) == IF s # <<>> /\ s[Len(s)] \in WS
             THEN RStrip(SubSeq(s, 1, Len(s) - 1)) ELSE s

\* str.strip()
Strip(s) == RStrip(LStrip(s))

\* the value pandas gives an empty cell (float nan); no string is equal to it
NaN == <<"NaN">>

\* str(row[col]): a text cell is itself, an empty cell prints as "nan"
Str(v) == IF v = NaN THEN <<"n", "a", "n">> ELSE v

----------------------------------------------------------------------------
(* The file system below image_directory *)

IsPrefix(p, q) == Len(p) <= Len(q) /\ SubSeq(q, 1, Len(p)) = p

Parent(p) == SubSeq(p, 1, Len(p) - 1)

Basename(p) == p[Len(p)]

\* os.path.join(base, name): joining the empty string gives "base/", which
\* names base itself
Join(base, name) == IF name = <<>> THEN base ELSE Append(base, name)

\* os.path.exists
Exists(d, p) == p = <<>> \/ \E e \in d.ents : e.path = p

\* os.path.isdir
IsDir(d, p) == p = <<>> \/ \E e \in d.ents : e.path = p /\ e.kind = "dir"

\* the directory p grants write permission (image_directory does)
Writable(d, p) == p = <<>> \/ \E e \in d.ents : e.path = p /\ e.w

Under(d, p) == {e \in d.ents : IsPrefix(p, e.path)}

\* identities: an entry present at the start is known by its name, a directory
\* made during the run is NewId
NewId == <<"+">>

RootId == <<"/">>

NoId == <<>>

Ok(d) == [fs |-> d, exc |-> "none"]

Raise(d, e) == [fs |-> d, exc |-> e]

\* os.makedirs(p) for a path that does not exist and whose parent is
\* image_directory: it takes a free inode, and fails (ENOSPC) without one
Makedirs(d, p) ==
    IF d.free = 0 \/ ~Writable(d, Parent(p)) \/ ~IsDir(d, Parent(p))
    THEN Raise(d, "OSError")
    ELSE Ok([ents |-> d.ents \cup {[path |-> p, kind |-> "dir", id |-> NewId, w |-> TRUE]},
             free |-> d.free - 1])

\* os.rename(src, dst) for an existing src (POSIX rename(2))
Rename(d, src, dst) ==
    IF src = dst THEN Ok(d)                               \* same file: nothing to do
    ELSE IF src = <<>> \/ (IsDir(d, src) /\ IsPrefix(src, dst))
         THEN Raise(d, "OSError")                         \* EINVAL: into itself
    ELSE IF ~IsDir(d, Parent(dst)) THEN Raise(d, "OSError")        \* ENOTDIR
    ELSE IF ~Writable(d, Parent(dst)) \/ ~Writable(d, Parent(src))
         THEN Raise(d, "OSError")                         \* EACCES
    ELSE IF Exists(d, dst) /\ IsDir(d, src) /\ ~IsDir(d, dst)
         THEN Raise(d, "OSError")                         \* ENOTDIR
    ELSE IF Exists(d, dst) /\ ~IsDir(d, src) /\ IsDir(d, dst)
         THEN Raise(d, "OSError")                         \* EISDIR
    ELSE IF Exists(d, dst) /\ IsDir(d, dst) /\ Under(d, dst) # {e \in d.ents : e.path = dst}
         THEN Raise(d, "OSError")                         \* ENOTEMPTY
    ELSE Ok([d EXCEPT !.ents =
               {e \in d.ents : ~IsPrefix(src, e.path) /\ e.path # dst}
               \cup {[e EXCEPT !.path = dst \o SubSeq(e.path, Len(src) + 1, Len(e.path))]
                     : e \in Under(d, src)}])

\* a faulty variant of Move: the source is copied, not moved
MoveKeepsSource(d, src, dst) ==
    LET r == Rename(d, src, dst)
    IN  IF r.exc = "none" THEN Ok([d EXCEPT !.ents = d.ents \cup r.fs.ents]) ELSE r

\* a faulty variant of Move: the team directory is emptied before the photo goes in
MoveIntoEmptied(d, src, dst) ==
    LET par == Parent(dst)
        emptied == IF Len(dst) = 2
                   THEN [d EXCEPT !.ents = {e \in d.ents : ~IsPrefix(par, e.path) \/ e.path = par}]
                   ELSE d
    IN  Rename(emptied, src, dst)

\* a faulty variant of Move: a regular file in the way of the team directory is
\* replaced by a directory
MoveReplacesFile(d, src, dst) ==
    LET par == Parent(dst)
        made == IF Len(dst) = 2 /\ Exists(d, par) /\ ~IsDir(d, par)
                THEN [d EXCEPT !.ents = {e \in d.ents : e.path # par}
                           \cup {[path |-> par, kind |-> "dir", id |-> NewId, w |-> TRUE]}]
                ELSE d
    IN  Rename(made, src, dst)

\* shutil.move(src, dst) for an existing src.  When os.rename fails,
\* shutil.move falls back to copying; in every case the model reaches the
\* copy fails for the reason the rename did (a directory moved into itself
\* raises shutil.Error, a destination below a regular file or inside a
\* directory without write permission cannot be created), so the error
\* propagates and nothing has changed.
Move(d, src, dst) ==
    IF IsDir(d, dst)
    THEN IF src = dst THEN Rename(d, src, dst)            \* _samefile
         ELSE IF src = <<>> THEN Raise(d, "OSError")      \* into itself
         ELSE LET real_dst == Append(dst, Basename(src))
              IN  IF Exists(d, real_dst) THEN Raise(d, "OSError")
                  ELSE Rename(d, src, real_dst)
    ELSE Rename(d, src, dst)

----------------------------------------------------------------------------
(* The reorganizer *)

Step(d, e, ops) == [fs |-> d, exc |-> e, ops |-> ops]

MkdirOp(p, r) == [op |-> "makedirs", src |-> p, dst |-> p, ok |-> r.exc = "none"]

MoveOp(s, t, r) == [op |-> "move", src |-> s, dst |-> t, ok |-> r.exc = "none"]

\* a faulty variant of organize_row: a failed creation or move is swallowed, and the
\* loop goes on to the next row
organize_row_swallow(d, row, tcol, pcol) ==
    IF tcol \notin DOMAIN row \/ pcol \notin DOMAIN row
    THEN Step(d, "KeyError", <<>>)
    ELSE LET team_name == Strip(Str(row[tcol]))
             photo_name == Strip(Str(row[pcol]))
             team_directory == Join(<<>>, team_name)
             made == ~Exists(d, team_directory)
             m == IF made THEN Makedirs(d, team_directory) ELSE Ok(d)
             mops == IF made THEN <<MkdirOp(team_directory, m)>> ELSE <<>>
             source_path == Join(<<>>, photo_name)
             destination_path == Join(team_directory, photo_name)
         IN  IF Exists(m.fs, source_path)
             THEN LET r == Move(m.fs, source_path, destination_path)
                  IN  Step(r.fs, "none", mops \o <<MoveOp(source_path, destination_path, r)>>)
             ELSE Step(m.fs, "none", mops)

\* organize.py, lines 10-18: the body of the loop, for one row of the table.
\* row[col] raises KeyError when col is no column of the table.
organize_row(d, row, tcol, pcol) ==
    IF tcol \notin DOMAIN row \/ pcol \notin DOMAIN row
    THEN Step(d, "KeyError", <<>>)
    ELSE LET team_name == Strip(Str(row[tcol]))
             photo_name == Strip(Str(row[pcol]))
             team_directory == Join(<<>>, team_name)
             made == ~Exists(d, team_directory)
             m == IF made THEN Makedirs(d, team_directory) ELSE Ok(d)
             mops == IF made THEN <<MkdirOp(team_directory, m)>> ELSE <<>>
             source_path == Join(<<>>, photo_name)
             destination_path == Join(team_directory, photo_name)
         IN  IF m.exc # "none" THEN Step(m.fs, m.exc, mops)
             ELSE IF Exists(m.fs, source_path)
                  THEN LET r == Move(m.fs, source_path, destination_path)
                       IN  Step(r.fs, r.exc, mops \o <<MoveOp(source_path, destination_path, r)>>)
                  ELSE Step(m.fs, "none", mops)

\* a faulty variant of mac_row: the team value is used as read, not trimmed
mac_row_untrimmed(d, row, tcol, pcol) ==
    IF tcol \notin DOMAIN row \/ pcol \notin DOMAIN row
    THEN Step(d, "KeyError", <<>>)
    ELSE LET team_name == Str(row[tcol])
             photo_name == Strip(Str(row[pcol]))
             team_directory == Join(<<>>, team_name)
             made == ~Exists(d, team_directory)
             m == IF made THEN Makedirs(d, team_directory) ELSE Ok(d)
             mops == IF made THEN <<MkdirOp(team_directory, m)>> ELSE <<>>
             source_path == Join(<<>>, photo_name)
             destination_path == Join(team_directory, photo_name)
         IN  IF m.exc # "none" THEN Step(m.fs, m.exc, mops)
             ELSE IF Exists(m.fs, source_path)
                  THEN LET r == Move(m.fs, source_path, destination_path)
                       IN  Step(r.fs, r.exc, mops \o <<MoveOp(source_path, destination_path, r)>>)
                  ELSE Step(m.fs, "none", mops)

\* organize-mac.py, lines 80-88: the body of the loop, for one row
mac_row(d, row, tcol, pcol) ==
    IF tcol \notin DOMAIN row \/ pcol \notin DOMAIN row
    THEN Step(d, "KeyError", <<>>)
    ELSE LET team_name == Strip(Str(row[tcol]))
             photo_name == Strip(Str(row[pcol]))
             team_directory == Join(<<>>, team_name)
             made == ~Exists(d, team_directory)
             m == IF made THEN Makedirs(d, team_directory) ELSE Ok(d)
             mops == IF made THEN <<MkdirOp(team_directory, m)>> ELSE <<>>
             source_path == Join(<<>>, photo_name)
             destination_path == Join(team_directory, photo_name)
         IN  IF m.exc # "none" THEN Step(m.fs, m.exc, mops)
             ELSE IF Exists(m.fs, source_path)
                  THEN LET r == Move(m.fs, source_path, destination_path)
                       IN  Step(r.fs, r.exc, mops \o <<MoveOp(source_path, destination_path, r)>>)
                  ELSE Step(m.fs, "none", mops)

----------------------------------------------------------------------------
(* Inputs *)

Cell(team, photo) == [Team |-> team, Photo |-> photo]

\* the rows the tables are made of
Rows == { Cell(<<" ", "r", "\t">>, <<"a", " ">>),   \* " r\t", "a " : trimmed to r, a
          Cell(<<"r">>, <<"c">>),
          Cell(<<"b">>, <<"r">>),                   \* the photo is another row's team
          Cell(<<"b">>, <<"a">>),                   \* the photo of the first row again
          Cell(<<" ">>, <<"a">>),                   \* the team is empty once trimmed
          Cell(<<"z">>, <<"c">>),                   \* z is a directory without write permission
          Cell(NaN, <<"\t">>) }                     \* an empty cell; a photo empty once trimmed

Tables == UNION {[1..n -> Rows] : n \in 0..MaxRows}

File(name) == [path |-> <<name>>, kind |-> "file", id |-> name, w |-> TRUE]

Dir(name, w) == [path |-> <<name>>, kind |-> "dir", id |-> name, w |-> w]

\* a file that was in directory r before the run
Kept(name) == [path |-> <<<<"r">>, name>>, kind |-> "file", id |-> <<"r", "/">> \o name, w |-> TRUE]

\* what image_directory holds when the user presses the button: u is a file
\* no row names, z an empty directory without write permission; r, when it
\* is a directory, holds an older a and a file k
Disks == { [ents |-> {File(<<"u">>), Dir(<<"z">>, FALSE)} \cup a \cup c \cup r, free |-> n] :
             a \in {{}, {File(<<"a">>)}},
             c \in {{}, {File(<<"c">>)}},
             r \in {{}, {File(<<"r">>)}, {Dir(<<"r">>, TRUE), Kept(<<"a">>), Kept(<<"k">>)}},
             n \in {0, 1, MaxRows * MaxRuns} }

NoDisk == [ents |-> {}, free |-> 0]

----------------------------------------------------------------------------
(* organize.py *)

InitA == /\ df \in [columns : {{"Team", "Photo"}}, rows : Tables]
         /\ team_col \in {"Team", "Division"}
         /\ photo_col \in {"Photo", "SPA"}
         /\ fs \in Disks
         /\ pc = "idle" /\ index = 0 /\ exc = "none" /\ log = <<>>
         /\ fs0 = fs /\ prev = fs /\ run = 1 /\ fs1 = NoDisk

OffB == /\ dfB = <<>> /\ fsB = NoDisk /\ pcB = "off"
        /\ indexB = 0 /\ excB = "none" /\ logB = <<>>

Init == InitA /\ OffB

\* run_organizer (lines 30-35) reads the four entries and calls
\* organize_photos_by_team, whose first statement is pd.read_csv (line 8)
run_organizer ==
    /\ pc = "idle"
    /\ pc' = IF df.rows = <<>> THEN "done" ELSE "loop"
    /\ index' = 1
    /\ UNCHANGED <<df, team_col, photo_col, fs, exc, log, fs0, prev, run, fs1>>
    /\ UNCHANGED varsB

\* one iteration of the loop of organize_photos_by_team (lines 9-18); an
\* exception ends the run, the end of the table ends it too
organize_photos_by_team ==
    /\ pc = "loop"
    /\ LET s == organize_row(fs, df.rows[index], team_col, photo_col)
       IN  /\ fs' = s.fs
           /\ exc' = s.exc
           /\ log' = log \o s.ops
           /\ prev' = fs
           /\ pc' = IF s.exc # "none" THEN "error"
                    ELSE IF index = Len(df.rows) THEN "done" ELSE "loop"
           /\ index' = IF s.exc # "none" THEN index ELSE index + 1
    /\ UNCHANGED <<df, team_col, photo_col, fs0, run, fs1>>
    /\ UNCHANGED varsB

Next == run_organizer \/ organize_photos_by_team

Spec == Init /\ [][Next]_vars

----------------------------------------------------------------------------
(* Pressing "Run Organizer" again, with nothing changed in between *)

\* the button is pressed again after a run that returned: run_organizer
\* (lines 30-35) reads the same entries and the table is read afresh
run_organizer_again ==
    /\ pc = "done" /\ run < MaxRuns
    /\ run' = run + 1
    /\ fs1' = fs
    /\ log' = <<>>
    /\ index' = 1
    /\ pc' = IF df.rows = <<>> THEN "done" ELSE "loop"
    /\ UNCHANGED <<df, team_col, photo_col, fs, exc, fs0, prev>>
    /\ UNCHANGED varsB

NextTwice == run_organizer \/ organize_photos_by_team \/ run_organizer_again

SpecTwice == Init /\ [][NextTwice]_vars

----------------------------------------------------------------------------
(* The PyQt front end, on the same inputs and the same directory contents *)

InitMac == /\ InitA
           /\ dfB = df.rows /\ fsB = fs /\ pcB = "idle"
           /\ indexB = 0 /\ excB = "none" /\ logB = <<>>

\* PhotoOrganizer.run_organizer, lines 73-78: the four fields, pd.read_csv
mac_read_csv ==
    /\ pc \in {"done", "error"} /\ pcB = "idle"
    /\ pcB' = IF dfB = <<>> THEN "done" ELSE "loop"
    /\ indexB' = 1
    /\ UNCHANGED <<dfB, fsB, excB, logB>>
    /\ UNCHANGED varsA

\* PhotoOrganizer.run_organizer, lines 79-88: one iteration of the loop
PhotoOrganizer_run_organizer ==
    /\ pcB = "loop"
    /\ LET s == mac_row(fsB, dfB[indexB], team_col, photo_col)
       IN  /\ fsB' = s.fs
           /\ excB' = s.exc
           /\ logB' = logB \o s.ops
           /\ pcB' = IF s.exc # "none" THEN "error"
                     ELSE IF indexB = Len(dfB) THEN "done" ELSE "loop"
           /\ indexB' = IF s.exc # "none" THEN indexB ELSE indexB + 1
    /\ UNCHANGED dfB
    /\ UNCHANGED varsA

NextMac == \/ run_organizer \/ organize_photos_by_team
           \/ mac_read_csv \/ PhotoOrganizer_run_organizer

SpecMac == InitMac /\ [][NextMac]_vars

----------------------------------------------------------------------------
(* The same table with two neighbouring rows exchanged, on a directory    *)
(* with the same contents.  Every permutation of the rows is a product of *)
(* such exchanges.                                                        *)

Swap(rows, i) == [k \in 1..Len(rows) |->
                    IF k = i THEN rows[i + 1] ELSE IF k = i + 1 THEN rows[i] ELSE rows[k]]

InitPerm == /\ InitA
            /\ team_col = "Team" /\ photo_col = "Photo"
            /\ dfB \in {Swap(df.rows, i) : i \in 1..(Len(df.rows) - 1)}
            /\ fsB = fs /\ pcB = "idle"
            /\ indexB = 0 /\ excB = "none" /\ logB = <<>>

\* run_organizer (lines 30-35, line 8) on the reordered table
perm_run_organizer ==
    /\ pc \in {"done", "error"} /\ pcB = "idle"
    /\ pcB' = IF dfB = <<>> THEN "done" ELSE "loop"
    /\ indexB' = 1
    /\ UNCHANGED <<dfB, fsB, excB, logB>>
    /\ UNCHANGED varsA

\* one iteration of the loop (lines 9-18) on the reordered table
perm_organize_photos_by_team ==
    /\ pcB = "loop"
    /\ LET s == organize_row(fsB, dfB[indexB], team_col, photo_col)
       IN  /\ fsB' = s.fs
           /\ excB' = s.exc
           /\ logB' = logB \o s.ops
           /\ pcB' = IF s.exc # "none" THEN "error"
                     ELSE IF indexB = Len(dfB) THEN "done" ELSE "loop"
           /\ indexB' = IF s.exc # "none" THEN indexB ELSE indexB + 1
    /\ UNCHANGED dfB
    /\ UNCHANGED varsA

NextPerm == \/ run_organizer \/ organize_photos_by_team
            \/ perm_run_organizer \/ perm_organize_photos_by_team

SpecPerm == InitPerm /\ [][NextPerm]_vars

----------------------------------------------------------------------------
(* Vocabulary of the properties *)

\* both configured column names are columns of the table
Good == team_col \in df.columns /\ photo_col \in df.columns

NRows == Len(df.rows)

TeamOf(i) == Strip(Str(df.rows[i][team_col]))

PhotoOf(i) == Strip(Str(df.rows[i][photo_col]))

Finished == pc \in {"done", "error"}

\* the identity of what is at path p (NoId: nothing is there)
IdAt(d, p) == IF p = <<>> THEN RootId
              ELSE IF \E e \in d.ents : e.path = p
                   THEN (CHOOSE e \in d.ents : e.path = p).id
                   ELSE NoId

\* the rows whose source path existed before the run started
HadSource(i) == Exists(fs0, Join(<<>>, PhotoOf(i)))

\* the first row that names photo p with a team that is not empty (0: none)
FirstMover(p) ==
    LET js == {j \in 1..NRows : PhotoOf(j) = p /\ TeamOf(j) # <<>>}
    IN  IF js = {} THEN 0 ELSE CHOOSE j \in js : \A k \in js : j <= k

\* path q ends with the two components t, p
EndsWith(q, t, p) == Len(q) >= 2 /\ q[Len(q) - 1] = t /\ q[Len(q)] = p

----------------------------------------------------------------------------
(* C1 *)

PhotosDistinct == \A i, j \in 1..NRows : i # j => PhotoOf(i) # PhotoOf(j)

NoPhotoIsTeam == \A i, j \in 1..NRows : PhotoOf(i) # TeamOf(j)

----------------------------------------------------------------------------
(* C2 *)

\* C2, as claimed: a row whose source file does not exist when the row is
\* processed changes nothing on the file system and raises no error.
C2_AsClaimed ==
    [][ (pc = "loop" /\ Good /\ ~Exists(fs, Join(<<>>, PhotoOf(index))))
            => (fs' = fs /\ exc' = "none") ]_vars

----------------------------------------------------------------------------
(* C3 *)

\* C3, as claimed: with a configured column name that is no column of the
\* table the run fails with a schema error and the file system is unchanged,
\* whatever the number of data rows.
C3_AsClaimed ==
    (~Good /\ Finished) => (pc = "error" /\ exc = "KeyError" /\ fs = fs0)

----------------------------------------------------------------------------
(* C4 *)

\* C4, as claimed: a second run on the same table and directory, after a
\* first run that completed, raises no error and leaves the file system as
\* the first run left it.
C4_AsClaimed ==
    (run = 2 /\ Finished /\ Good) => (pc = "done" /\ exc = "none" /\ fs = fs1)

----------------------------------------------------------------------------
(* C5 *)

Trimmed(n) == n = <<>> \/ (Head(n) \notin WS /\ n[Len(n)] \notin WS)

\* C5, as claimed: in one run a team directory is created at most once per
\* trimmed team value (no second attempt, so no error from one), and every
\* directory created is named by a trimmed value.
C5_AsClaimed ==
    \A i \in 1..Len(log) :
        log[i].op = "makedirs" =>
            /\ Len(log[i].src) = 1 /\ Trimmed(log[i].src[1])
            /\ \A j \in 1..Len(log) :
                   (j # i /\ log[j].op = "makedirs") => log[j].src # log[i].src

----------------------------------------------------------------------------
(* C6 *)

\* the names that rows 1..k use, as a team or as a photo
NamesUpTo(k) == UNION {{TeamOf(i), PhotoOf(i)} : i \in 1..k}

\* C6: when a directory creation or a move fails at row k, the run stops at
\* row k with that error; what the rows before k did is still there, and
\* nothing named only by a later row has been created or moved.
C6_StopsAtFailure ==
    \A k \in 1..Len(log) :
        ~log[k].ok =>
            /\ k = Len(log) /\ pc = "error" /\ exc = "OSError"
            /\ prev.ents \subseteq fs.ents
            /\ \A j \in (index + 1)..NRows :
                 \A n \in {TeamOf(j), PhotoOf(j)} \ ({<<>>} \cup NamesUpTo(index)) :
                     IdAt(fs, <<n>>) = IdAt(fs0, <<n>>)

\* row 1 moved a photo, row 2 failed moving one into a directory without
\* write permission, row 3 names a team no earlier row names
C6_Witness ==
    /\ pc = "error" /\ exc = "OSError" /\ index = 2 /\ NRows = 3
    /\ Len(log) = 3 /\ log[2].op = "move" /\ log[2].ok
    /\ log[3].op = "move" /\ ~log[3].ok
    /\ TeamOf(3) \notin NamesUpTo(2) \cup {<<>>}
    /\ ~Exists(fs, <<TeamOf(3)>>)

----------------------------------------------------------------------------
(* C7 *)

FinishedB == pcB \in {"done", "error"}

\* C7, as claimed: the run on a reordered table ends in the same file system
\* state with the same error outcome, for any table.
C7_AsClaimed == FinishedB => (fsB = fs /\ excB = exc)

\* C7, amended: for a table whose trimmed photo values are pairwise distinct
\* and none of which is a trimmed team value of the table, the run on the
\* reordered table raises an error exactly when the run on the table does,
\* and when neither does they end in the same file system state.
C7_Amended ==
    (FinishedB /\ PhotosDistinct /\ NoPhotoIsTeam) =>
        (excB = exc /\ (exc = "none" => fsB = fs))

\* two rows exchanged, each moved its photo
C7_Witness ==
    /\ FinishedB /\ PhotosDistinct /\ NoPhotoIsTeam
    /\ NRows >= 2 /\ dfB # df.rows /\ exc = "none"
    /\ \E i, j \in 1..Len(logB) : i # j /\ logB[i].op = "move" /\ logB[j].op = "move"
                                   /\ logB[i].ok /\ logB[j].ok

----------------------------------------------------------------------------
(* C8 *)

\* C8: on the same inputs and the same directory contents, the two front
\* ends perform the same directory creations and moves in the same order,
\* and end in the same file system state with the same error outcome.
C8_SameSteps ==
    FinishedB => /\ logB = log
                 /\ fsB = fs
                 /\ excB = exc /\ pcB = pc /\ indexB = index

\* both ran a table of which one row created a directory and moved a photo
\* and a later row failed
C8_Witness ==
    /\ FinishedB /\ pcB = "error" /\ excB = "OSError" /\ indexB >= 2
    /\ \E i \in 1..Len(logB) : logB[i].op = "move" /\ logB[i].ok
    /\ \E i \in 1..Len(logB) : logB[i].op = "makedirs" /\ logB[i].ok

----------------------------------------------------------------------------
(* C9 *)

\* C9, as claimed: after a run that completes without error, for every row
\* there is something at <dir>/<trimmed team>: a team directory found or
\* created during the run is not moved away by a later row.
C9_AsClaimed ==
    (pc = "done" /\ Good) =>
        \A i \in 1..NRows : Exists(fs, Join(<<>>, TeamOf(i)))

----------------------------------------------------------------------------
(* C10 *)

\* the trimmed photo values of the table (none when the photo column is
\* missing: no row is then processed)
PhotoNames == IF photo_col \in df.columns THEN {Strip(Str(df.rows[i][photo_col])) : i \in 1..NRows}
              ELSE {}

\* the trimmed team values of the table
TeamNames == IF team_col \in df.columns THEN {Strip(Str(df.rows[i][team_col])) : i \in 1..NRows}
             ELSE {}

\* the entries of the source directory that no row names as a photo
Others == {e \in fs0.ents : Len(e.path) = 1 /\ e.path[1] \notin PhotoNames}

\* C10, as claimed: an entry directly inside the source directory before the
\* run whose name is no row's trimmed photo value is still at the same path
\* with the same content (for a directory: with what it held), at every
\* point of the run and whether it completes or aborts.
C10_AsClaimed ==
    \A e \in Others : e \in fs.ents /\ Under(fs, e.path) = Under(fs0, e.path)

\* C10, amended: such an entry is still at the same path, the same file or
\* directory; a directory still holds everything it held, except that the
\* photos of the rows naming it as their team have been moved into it,
\* where one replaces a file of the same name.
C10_OthersKept ==
    \A e \in Others :
        /\ e \in fs.ents
        /\ \A x \in Under(fs0, e.path) :
               \/ x \in fs.ents
               \/ /\ Len(x.path) = 2 /\ x.path[1] \in TeamNames /\ x.path[2] \in PhotoNames
                  /\ IdAt(fs, x.path) = IdAt(fs0, <<x.path[2]>>)
        /\ \A x \in Under(fs, e.path) :
               \/ x \in fs0.ents
               \/ /\ Len(x.path) >= 2 /\ x.path[1] \in TeamNames /\ x.path[2] \in PhotoNames
                  /\ SubSeq(x.path, 2, Len(x.path)) \in {y.path : y \in fs0.ents}

\* a run that moved a photo into a directory that was there before, over an
\* older file of the same name, and then aborted, beside a file no row names
C10_Witness ==
    /\ pc = "error" /\ exc = "OSError"
    /\ <<"u">> \notin PhotoNames /\ <<"r">> \notin PhotoNames
    /\ IdAt(fs0, <<<<"r">>, <<"a">>>>) = <<"r", "/", "a">>
    /\ IdAt(fs, <<<<"r">>, <<"a">>>>) = <<"a">>
    /\ IdAt(fs, <<<<"r">>, <<"k">>>>) = <<"r", "/", "k">>
    /\ IdAt(fs, <<<<"u">>>>) = <<"u">>

====
